---- MODULE Spec2Model ----
(***************************************************************************)
(* Model of pvlib/infinite_sheds.py: the infinite-sheds plane-of-array     *)
(* irradiance functions and the InfiniteSheds object.                      *)
(*                                                                         *)
(* Numbers.  A numpy float64 is modelled as an extended rational: a        *)
(* reduced fraction n/d, +inf, -inf or NaN, with IEEE-754 rules for the    *)
(* special values (x/0 = +-inf, 0/0 = NaN, 0*inf = NaN, NaN propagates,    *)
(* every comparison with NaN is false).  Finite arithmetic is exact: the   *)
(* rounding of the last bit of a float64 is not modelled.                  *)
(*                                                                         *)
(* Angles.  cos and sin are computed exactly on the angles                 *)
(*     q * (pi/2) + k * theta,    theta = arctan(3/4),                     *)
(* whose cosine and sine are rational (cos theta = 4/5, sin theta = 3/5).  *)
(* An angle is the record [q |-> q, k |-> k].                              *)
(*                                                                         *)
(* Python objects.  A str is [t |-> "str", s |-> ...], None is             *)
(* [t |-> "none"], a raised exception is [t |-> "exc", s |-> its type].    *)
(***************************************************************************)
EXTENDS Integers, Sequences, FiniteSets, TLC

VARIABLES
    call,     \* the last call of a module-level function: name, inputs, result
    sheds,    \* the InfiniteSheds object: its attributes
    last      \* the last InfiniteSheds.get_irradiance call: inputs and outcome

vars == <<call, sheds, last>>

---------------------------------------------------------------------------
(* Bounds of the model *)

\* angles q*(pi/2) + k*theta with |k| <= MaxK
MaxK == 2
\* rational inputs n/d with |n| <= MaxNum and 1 <= d <= MaxNum
MaxNum == 4
\* irradiance inputs 0 .. MaxIrr (W/m^2, in whole units)
MaxIrr == 2

\* the cosine of an arc tangent, a square root, is rounded to 1/Res
Res == 10000

\* a loop over rows is followed for MaxPasses passes at most
MaxPasses == 20

---------------------------------------------------------------------------
(* float64 as extended rationals *)

AbsInt(i) == IF i < 0 THEN 0 - i ELSE i

RECURSIVE GCD(_, _)
GCD(a, b) == IF b = 0 THEN a ELSE GCD(b, a % b)

\* the reduced fraction n/d, d # 0
Fin(n, d) ==
    LET g == GCD(AbsInt(n), AbsInt(d))
        s == IF d < 0 THEN 0 - 1 ELSE 1
    IN  [t |-> "fin", n |-> (s * n) \div g, d |-> AbsInt(d) \div g]

Num(i) == Fin(i, 1)
Zero == Num(0)
One == Num(1)
PInf == [t |-> "inf", n |-> 1, d |-> 0]
NInf == [t |-> "inf", n |-> 0 - 1, d |-> 0]
NaN == [t |-> "nan", n |-> 0, d |-> 0]
TypeError == [t |-> "exc", s |-> "TypeError"]
None == [t |-> "none"]
Str(s) == [t |-> "str", s |-> s]

IsFin(a) == a.t = "fin"
IsNumber(a) == a.t \in {"fin", "inf", "nan"}
\* -1, 0 or 1; of a NaN 0
Sign(a) == IF a.t = "nan" THEN 0 ELSE IF a.n > 0 THEN 1 ELSE IF a.n < 0 THEN 0 - 1 ELSE 0
Inf(s) == IF s > 0 THEN PInf ELSE NInf

\* an operand that stops a Python arithmetic operator: an exception already
\* raised goes on, and a str operand with a float raises TypeError
Stops(a, b) == ~IsNumber(a) \/ ~IsNumber(b)
Stopped(a, b) ==
    IF a.t = "exc" THEN a ELSE IF b.t = "exc" THEN b ELSE TypeError

Neg(a) ==
    IF ~IsNumber(a) THEN Stopped(a, a)
    ELSE IF a.t = "nan" THEN NaN
    ELSE IF a.t = "inf" THEN Inf(0 - a.n)
    ELSE Fin(0 - a.n, a.d)

Add(a, b) ==
    IF Stops(a, b) THEN Stopped(a, b)
    ELSE IF a.t = "nan" \/ b.t = "nan" THEN NaN
    ELSE IF a.t = "inf" /\ b.t = "inf" THEN (IF a.n = b.n THEN a ELSE NaN)
    ELSE IF a.t = "inf" THEN a
    ELSE IF b.t = "inf" THEN b
    ELSE LET g == GCD(a.d, b.d)
         IN  Fin(a.n * (b.d \div g) + b.n * (a.d \div g), (a.d \div g) * b.d)

Sub(a, b) == Add(a, Neg(b))

Mul(a, b) ==
    IF Stops(a, b) THEN Stopped(a, b)
    ELSE IF a.t = "nan" \/ b.t = "nan" THEN NaN
    ELSE IF a.t = "inf" \/ b.t = "inf"
         THEN (IF Sign(a) * Sign(b) = 0 THEN NaN ELSE Inf(Sign(a) * Sign(b)))
    ELSE LET g == GCD(AbsInt(a.n), b.d)
             h == GCD(AbsInt(b.n), a.d)
         IN  Fin((a.n \div g) * (b.n \div h), (a.d \div h) * (b.d \div g))

\* numpy's true division: a zero divisor gives +-inf or NaN, not an exception
Div(a, b) ==
    IF Stops(a, b) THEN Stopped(a, b)
    ELSE IF a.t = "nan" \/ b.t = "nan" THEN NaN
    ELSE IF a.t = "inf" /\ b.t = "inf" THEN NaN
    ELSE IF a.t = "inf" THEN Inf(IF Sign(b) < 0 THEN 0 - a.n ELSE a.n)
    ELSE IF b.t = "inf" THEN Zero
    ELSE IF b.n = 0 THEN (IF a.n = 0 THEN NaN ELSE Inf(Sign(a)))
    ELSE LET g == GCD(AbsInt(a.n), AbsInt(b.n))
             h == GCD(a.d, b.d)
         IN  Fin((a.n \div g) * (b.d \div h), (a.d \div h) * (b.n \div g))

\* a < b and a <= b on floats; false when either is NaN
Lt(a, b) ==
    /\ a.t # "nan" /\ b.t # "nan"
    /\ IF a.t = "inf" THEN a.n < 0 /\ b # a
       ELSE IF b.t = "inf" THEN b.n > 0
       ELSE LET g == GCD(a.d, b.d)
            IN  a.n * (b.d \div g) < b.n * (a.d \div g)
Le(a, b) == a.t # "nan" /\ b.t # "nan" /\ (a = b \/ Lt(a, b))

\* np.abs, np.minimum, np.maximum (both propagate NaN), np.isfinite
NpAbs(a) == IF Sign(a) < 0 THEN Neg(a) ELSE a
NpMinimum(a, b) ==
    IF a.t = "nan" \/ b.t = "nan" THEN NaN ELSE IF Lt(b, a) THEN b ELSE a
NpMaximum(a, b) ==
    IF a.t = "nan" \/ b.t = "nan" THEN NaN ELSE IF Lt(a, b) THEN b ELSE a
NpIsFinite(a) == a.t = "fin"
\* np.where(cond, x, y) on one element
NpWhere(cond, x, y) == IF cond THEN x ELSE y

---------------------------------------------------------------------------
(* angles and their trigonometry *)

Ang(q, k) == [q |-> q, k |-> k]
PI == Ang(2, 0)
AngAdd(a, b) == Ang(a.q + b.q, a.k + b.k)
AngSub(a, b) == Ang(a.q - b.q, a.k - b.k)

\* the size of an angle in units of 1/100000 of a quarter turn, with
\* theta/(pi/2) = 0.40966553... taken as 0.40967: enough to order the angles
\* of the lattice, whose k is small
Turns(a) == a.q * 100000 + a.k * 40967
AngLt(a, b) == a # b /\ Turns(a) < Turns(b)
AngLe(a, b) == a = b \/ Turns(a) < Turns(b)

\* Python's float %: the result has the divisor's sign, so a % (2 pi) is in [0, 2 pi)
AngMod2Pi(a) == Ang(a.q - 4 * (Turns(a) \div 400000), a.k)

\* cos(k theta) and sin(k theta), k >= 0, by the addition formulas
RECURSIVE CosK(_)
RECURSIVE SinK(_)
CosK(k) ==
    IF k = 0 THEN One
    ELSE Sub(Mul(CosK(k - 1), Fin(4, 5)), Mul(SinK(k - 1), Fin(3, 5)))
SinK(k) ==
    IF k = 0 THEN Zero
    ELSE Add(Mul(SinK(k - 1), Fin(4, 5)), Mul(CosK(k - 1), Fin(3, 5)))

NpCos(a) ==
    LET c == CosK(AbsInt(a.k))
        s == IF a.k < 0 THEN Neg(SinK(AbsInt(a.k))) ELSE SinK(a.k)
        r == a.q % 4
    IN  IF r = 0 THEN c ELSE IF r = 1 THEN Neg(s) ELSE IF r = 2 THEN Neg(c) ELSE s
NpSin(a) ==
    LET c == CosK(AbsInt(a.k))
        s == IF a.k < 0 THEN Neg(SinK(AbsInt(a.k))) ELSE SinK(a.k)
        r == a.q % 4
    IN  IF r = 0 THEN s ELSE IF r = 1 THEN c ELSE IF r = 2 THEN Neg(s) ELSE Neg(c)
NpTan(a) == Div(NpSin(a), NpCos(a))

---------------------------------------------------------------------------
(* the module-level functions *)

\* mutant: the tangent taken of the rotation and the cosine of the zenith
solar_projection_tangent_swapped(solar_zenith, solar_azimuth, system_azimuth) ==
    LET rotation == AngSub(solar_azimuth, system_azimuth)
    IN  Mul(NpCos(solar_zenith), NpTan(rotation))

solar_projection_tangent(solar_zenith, solar_azimuth, system_azimuth) ==
    LET rotation == AngSub(solar_azimuth, system_azimuth)
    IN  Mul(NpCos(rotation), NpTan(solar_zenith))

\* mutant: np.abs left out
unshaded_ground_fraction_noabs(gcr, tilt, tan_phi) ==
    Sub(One, NpMinimum(One,
        Mul(gcr, Add(NpCos(tilt), Mul(NpSin(tilt), tan_phi)))))

unshaded_ground_fraction(gcr, tilt, tan_phi) ==
    Sub(One, NpMinimum(One,
        Mul(gcr, NpAbs(Add(NpCos(tilt), Mul(NpSin(tilt), tan_phi))))))

diffuse_fraction(ghi, dhi) == Div(dhi, ghi)

\* mutant: the diffuse fraction used as it comes, not masked by np.isfinite
poa_ground_sky_nomask(poa_ground, f_gnd_beam, df, vf_gnd_sky) ==
    Mul(poa_ground,
        Add(Mul(f_gnd_beam, Sub(One, df)), Mul(df, vf_gnd_sky)))

\* mutant: the beam term not weighted by 1 - df
poa_ground_sky_beam(poa_ground, f_gnd_beam, df, vf_gnd_sky) ==
    LET df1 == NpWhere(NpIsFinite(df), df, Zero)
    IN  Mul(poa_ground, Add(f_gnd_beam, Mul(df1, vf_gnd_sky)))

poa_ground_sky(poa_ground, f_gnd_beam, df, vf_gnd_sky) ==
    LET df1 == NpWhere(NpIsFinite(df), df, Zero)
    IN  Mul(poa_ground,
            Add(Mul(f_gnd_beam, Sub(One, df1)), Mul(df1, vf_gnd_sky)))

\* mutant: np.maximum(0.0, ...) left out
shade_line_nomax(gcr, tilt, tan_phi) ==
    LET f_x == Sub(One, Div(Div(One, gcr),
                       Add(NpCos(tilt), Mul(NpSin(tilt), tan_phi))))
    IN  NpMinimum(f_x, One)

shade_line(gcr, tilt, tan_phi) ==
    LET f_x == Sub(One, Div(Div(One, gcr),
                       Add(NpCos(tilt), Mul(NpSin(tilt), tan_phi))))
    IN  NpMaximum(Zero, NpMinimum(f_x, One))

sky_angle_tangent(gcr, tilt, f_x) ==
    LET f_y == Sub(One, f_x)
    IN  Div(Mul(f_y, NpSin(tilt)),
            Sub(Div(One, gcr), Mul(f_y, NpCos(tilt))))

sky_angle_0_tangent(gcr, tilt) == sky_angle_tangent(gcr, tilt, Zero)

poa_sky_diffuse_pv(poa_sky_diffuse, f_x, f_sky_pv_shade, f_sky_pv_noshade) ==
    Mul(poa_sky_diffuse,
        Add(Mul(f_x, f_sky_pv_shade), Mul(Sub(One, f_x), f_sky_pv_noshade)))

ground_angle_tangent(gcr, tilt, f_x) ==
    Div(Mul(f_x, NpSin(tilt)),
        Add(Mul(f_x, NpCos(tilt)), Div(One, gcr)))

ground_angle_1_tangent(gcr, tilt) == ground_angle_tangent(gcr, tilt, One)

poa_ground_pv(poa_gnd_sky, f_x, f_gnd_pv_shade, f_gnd_pv_noshade) ==
    Mul(poa_gnd_sky,
        Add(Mul(f_x, f_gnd_pv_shade), Mul(Sub(One, f_x), f_gnd_pv_noshade)))

poa_diffuse_pv(poa_gnd_pv, poa_sky_pv) == Add(poa_gnd_pv, poa_sky_pv)

\* mutant: the shaded fraction not taken off
poa_direct_pv_noshade(poa_direct, iam, f_x) == Mul(poa_direct, iam)

poa_direct_pv(poa_direct, iam, f_x) ==
    Mul(Mul(poa_direct, iam), Sub(One, f_x))

\* mutant: the direct component left out
poa_global_pv_nodirect(poa_dir_pv, poa_dif_pv) == poa_dif_pv

poa_global_pv(poa_dir_pv, poa_dif_pv) == Add(poa_dir_pv, poa_dif_pv)

\* mutant: bifaciality left out of the product
poa_global_bifacial_nobif(poa_global_front, poa_global_back, bifaciality, shade_factor, transmission_factor) ==
    LET effects == Mul(Add(One, shade_factor), Add(One, transmission_factor))
    IN  Add(poa_global_front, Mul(poa_global_back, effects))

\* mutant: the back side subtracted
poa_global_bifacial_minus(poa_global_front, poa_global_back, bifaciality, shade_factor, transmission_factor) ==
    LET effects == Mul(Add(One, shade_factor), Add(One, transmission_factor))
    IN  Sub(poa_global_front, Mul(Mul(poa_global_back, bifaciality), effects))

poa_global_bifacial(poa_global_front, poa_global_back, bifaciality, shade_factor, transmission_factor) ==
    LET effects == Mul(Add(One, shade_factor), Add(One, transmission_factor))
    IN  Add(poa_global_front, Mul(Mul(poa_global_back, bifaciality), effects))

\* mutant: the azimuth not wrapped
_backside_nowrap(tilt, system_azimuth) ==
    <<AngSub(PI, tilt), AngAdd(PI, system_azimuth)>>

_backside(tilt, system_azimuth) ==
    LET backside_tilt == AngSub(PI, tilt)
        backside_sysaz == AngMod2Pi(AngAdd(PI, system_azimuth))
    IN  <<backside_tilt, backside_sysaz>>

\* The results of vf_ground_sky (line 1002), f_sky_diffuse_pv (lines 1012-1013)
\* and f_ground_pv (lines 1020-1021) are cosines of arc tangents, irrational
\* for almost every geometry.  get_irradiance takes them here as the record vf,
\* [vf_gnd_sky, f_sky_pv_shade, f_sky_pv_noshade, f_gnd_pv_shade,
\* f_gnd_pv_noshade], any value the three functions may return.
\* The result is the OrderedDict, as the sequence of its items in order.
Item(k, v) == [key |-> k, val |-> v]

\* get_irradiance is one chain of assignments; each operator below is a
\* stretch of it, taking the names already bound as its parameters, and the
\* first of them, get_irradiance, is the function.

\* lines 1022-1044, after the sky and ground angles
get_irradiance_poa(poa_direct, iam, all_output, vf, tan_phi, f_gnd_beam, df, f_x, poa_gnd_sky, tan_psi_top, tan_psi_top_0, poa_sky_pv, tan_psi_bottom, tan_psi_bottom_1) ==
    LET f_sky_pv_shade == vf.f_sky_pv_shade
        f_sky_pv_noshade == vf.f_sky_pv_noshade
        f_gnd_pv_shade == vf.f_gnd_pv_shade
        f_gnd_pv_noshade == vf.f_gnd_pv_noshade
        poa_gnd_pv == poa_ground_pv(
            poa_gnd_sky, f_x, f_gnd_pv_shade, f_gnd_pv_noshade)
        poa_dif_pv == poa_diffuse_pv(poa_gnd_pv, poa_sky_pv)
        poa_dir_pv == poa_direct_pv(poa_direct, iam, f_x)
        poa_glo_pv == poa_global_pv(poa_dir_pv, poa_dif_pv)
        output == <<
            Item("poa_global_pv", poa_glo_pv),
            Item("poa_direct_pv", poa_dir_pv),
            Item("poa_diffuse_pv", poa_dif_pv),
            Item("poa_ground_diffuse_pv", poa_gnd_pv),
            Item("poa_sky_diffuse_pv", poa_sky_pv) >>
    IN  IF all_output
        THEN output \o <<
            Item("solar_projection", tan_phi),
            Item("ground_illumination", f_gnd_beam),
            Item("diffuse_fraction", df),
            Item("poa_ground_sky", poa_gnd_sky),
            Item("shade_line", f_x),
            Item("sky_angle_tangent", tan_psi_top),
            Item("sky_angle_0_tangent", tan_psi_top_0),
            Item("f_sky_diffuse_pv_shade", f_sky_pv_shade),
            Item("f_sky_diffuse_pv_noshade", f_sky_pv_noshade),
            Item("ground_angle_tangent", tan_psi_bottom),
            Item("ground_angle_1_tangent", tan_psi_bottom_1),
            Item("f_ground_diffuse_pv_shade", f_gnd_pv_shade),
            Item("f_ground_diffuse_pv_noshade", f_gnd_pv_noshade) >>
        ELSE output

\* mutant: all_output not passed on, every result has the diagnostic keys
get_irradiance_angles_all(gcr, tilt, poa_ground, poa_sky_diffuse, poa_direct, iam, all_output, vf, tan_phi, f_gnd_beam, df, f_x) ==
    get_irradiance_poa(poa_direct, iam, TRUE, vf, tan_phi, f_gnd_beam,
        df, f_x,
        poa_ground_sky(poa_ground, f_gnd_beam, df, vf.vf_gnd_sky),
        sky_angle_tangent(gcr, tilt, f_x),
        sky_angle_0_tangent(gcr, tilt),
        poa_sky_diffuse_pv(
            poa_sky_diffuse, f_x, vf.f_sky_pv_shade, vf.f_sky_pv_noshade),
        ground_angle_tangent(gcr, tilt, f_x),
        ground_angle_1_tangent(gcr, tilt))

\* lines 1001-1021, after f_gnd_beam, df and f_x (line 1007)
get_irradiance_angles(gcr, tilt, poa_ground, poa_sky_diffuse, poa_direct, iam, all_output, vf, tan_phi, f_gnd_beam, df, f_x) ==
    get_irradiance_poa(poa_direct, iam, all_output, vf, tan_phi, f_gnd_beam,
        df, f_x,
        poa_ground_sky(poa_ground, f_gnd_beam, df, vf.vf_gnd_sky),
        sky_angle_tangent(gcr, tilt, f_x),
        sky_angle_0_tangent(gcr, tilt),
        poa_sky_diffuse_pv(
            poa_sky_diffuse, f_x, vf.f_sky_pv_shade, vf.f_sky_pv_noshade),
        ground_angle_tangent(gcr, tilt, f_x),
        ground_angle_1_tangent(gcr, tilt))

\* lines 997-1000 and 1006-1007, after tan_phi
get_irradiance_ground(gcr, tilt, ghi, dhi, poa_ground, poa_sky_diffuse, poa_direct, iam, all_output, vf, tan_phi) ==
    get_irradiance_angles(gcr, tilt, poa_ground, poa_sky_diffuse, poa_direct,
        iam, all_output, vf, tan_phi,
        unshaded_ground_fraction(gcr, tilt, tan_phi),
        diffuse_fraction(ghi, dhi),
        shade_line(gcr, tilt, tan_phi))

get_irradiance(solar_zenith, solar_azimuth, system_azimuth, gcr, height, tilt, pitch, ghi, dhi, poa_ground, poa_sky_diffuse, poa_direct, iam, npoints, all_output, vf) ==
    get_irradiance_ground(gcr, tilt, ghi, dhi, poa_ground, poa_sky_diffuse,
        poa_direct, iam, all_output, vf,
        solar_projection_tangent(solar_zenith, solar_azimuth, system_azimuth))

\* list(output.keys())
Keys(output) == [i \in 1..Len(output) |-> output[i].key]

\* output[key]
GetItem(output, k) ==
    output[CHOOSE i \in 1..Len(output) : output[i].key = k].val

\* pvlib.irradiance and pvlib.iam are collaborators outside this module, pure
\* functions of their arguments.  Which functions they are is the record
\* world: world.transposition maps a surface orientation to the isolated-row
\* components, world.iam maps an angle of incidence and a coefficient b to a
\* factor in [0, 1].  The angle of incidence is kept as the four arguments it
\* is a function of.
irradiance_aoi(surface_tilt, surface_azimuth, solar_zenith, solar_azimuth) ==
    [surface_tilt |-> surface_tilt, surface_azimuth |-> surface_azimuth,
     solar_zenith |-> solar_zenith, solar_azimuth |-> solar_azimuth]

irradiance_get_total_irradiance(world, surface_tilt, surface_azimuth, solar_zenith, solar_azimuth, dni, ghi, dhi, dni_extra, airmass, model) ==
    world.transposition[<<surface_tilt, surface_azimuth>>]

iam_ashrae(world, aoi, b) == world.iam[<<aoi, b>>]

\* get_irradiance(..., iam) with npoints and all_output left at their
\* defaults, subscripted by 'poa_global_pv'; world.vf maps a tilt to what the
\* view factor functions return for it
get_irradiance_poa_global_pv(world, solar_zenith, solar_azimuth, system_azimuth, gcr, height, tilt, pitch, ghi, dhi, irrad, iam) ==
    GetItem(
        get_irradiance(solar_zenith, solar_azimuth, system_azimuth, gcr,
            height, tilt, pitch, ghi, dhi, irrad.poa_ground_diffuse,
            irrad.poa_sky_diffuse, irrad.poa_direct, iam, 100, FALSE,
            world.vf[tilt]),
        "poa_global_pv")

\* lines 1060-1084, after the back side orientation and the two angles of
\* incidence
get_poa_global_bifacial_sides(world, solar_zenith, solar_azimuth, system_azimuth, gcr, height, tilt, pitch, ghi, dhi, dni, dni_extra, am_rel, iam_b0_front, iam_b0_back, bifaciality, shade_factor, transmission_factor, method, backside_tilt, backside_sysaz, aoi_front, aoi_back) ==
    poa_global_bifacial(
        get_irradiance_poa_global_pv(world, solar_zenith, solar_azimuth,
            system_azimuth, gcr, height, tilt, pitch, ghi, dhi,
            irradiance_get_total_irradiance(world, tilt, system_azimuth,
                solar_zenith, solar_azimuth, dni, ghi, dhi, dni_extra,
                am_rel, method),
            iam_ashrae(world, aoi_front, iam_b0_front)),
        get_irradiance_poa_global_pv(world, solar_zenith, solar_azimuth,
            backside_sysaz, gcr, height, backside_tilt, pitch, ghi, dhi,
            irradiance_get_total_irradiance(world, backside_tilt,
                backside_sysaz, solar_zenith, solar_azimuth, dni, ghi, dhi,
                dni_extra, am_rel, method),
            iam_ashrae(world, aoi_back, iam_b0_back)),
        bifaciality, shade_factor, transmission_factor)

\* mutant: the back side's incidence modifier taken at the front side's angle
get_poa_global_bifacial_frontaoi(world, solar_zenith, solar_azimuth, system_azimuth, gcr, height, tilt, pitch, ghi, dhi, dni, dni_extra, am_rel, iam_b0_front, iam_b0_back, bifaciality, shade_factor, transmission_factor, method) ==
    get_poa_global_bifacial_sides(world, solar_zenith, solar_azimuth,
        system_azimuth, gcr, height, tilt, pitch, ghi, dhi, dni, dni_extra,
        am_rel, iam_b0_front, iam_b0_back, bifaciality, shade_factor,
        transmission_factor, method,
        _backside(tilt, system_azimuth)[1],
        _backside(tilt, system_azimuth)[2],
        irradiance_aoi(tilt, system_azimuth, solar_zenith, solar_azimuth),
        irradiance_aoi(tilt, system_azimuth, solar_zenith, solar_azimuth))

get_poa_global_bifacial(world, solar_zenith, solar_azimuth, system_azimuth, gcr, height, tilt, pitch, ghi, dhi, dni, dni_extra, am_rel, iam_b0_front, iam_b0_back, bifaciality, shade_factor, transmission_factor, method) ==
    get_poa_global_bifacial_sides(world, solar_zenith, solar_azimuth,
        system_azimuth, gcr, height, tilt, pitch, ghi, dhi, dni, dni_extra,
        am_rel, iam_b0_front, iam_b0_back, bifaciality, shade_factor,
        transmission_factor, method,
        _backside(tilt, system_azimuth)[1],
        _backside(tilt, system_azimuth)[2],
        irradiance_aoi(tilt, system_azimuth, solar_zenith, solar_azimuth),
        irradiance_aoi(_backside(tilt, system_azimuth)[1],
            _backside(tilt, system_azimuth)[2], solar_zenith, solar_azimuth))

---------------------------------------------------------------------------
(* the view factor functions *)

\* np.pi is the float64 below pi, so np.sin(np.pi) is 1.2246e-16 and
\* np.tan(np.pi) is -1.2246e-16 where the exact sine and tangent are 0:
\* Tiny(1) and Tiny(-1).  np.sin(0.0) and np.tan(0.0) are 0.0.
Tiny(s) == [t |-> "tiny", n |-> s, d |-> 1]
NpSinPi(a) == IF a = PI THEN Tiny(1) ELSE NpSin(a)
NpTanPi(a) == IF a = PI THEN Tiny(0 - 1) ELSE NpTan(a)
\* a / b where b may be Tiny: the quotient of a nonzero a is of the order of
\* 1e16 and is taken as infinite, every number it meets here being far
\* smaller
DivPi(a, b) ==
    IF b.t # "tiny" THEN Div(a, b)
    ELSE IF ~IsNumber(a) THEN Stopped(a, a)
    ELSE IF a.t = "nan" THEN NaN
    ELSE IF a.n = 0 THEN Zero
    ELSE Inf(Sign(a) * b.n)
\* numpy warns of a division by zero ("divide by zero encountered", or
\* "invalid value encountered" for 0/0) and goes on
WarnsOfDivide(b) == b = Zero

\* Python's float division: a zero divisor raises
ZeroDivisionError == [t |-> "exc", s |-> "ZeroDivisionError"]
PyDiv(a, b) ==
    IF Stops(a, b) THEN Stopped(a, b)
    ELSE IF b = Zero THEN ZeroDivisionError
    ELSE Div(a, b)

\* tilt < EPS or tilt > (np.pi-EPS), EPS = 1e-3: 0.001 rad is 63.7 of the
\* units of Turns
NearFlat(tilt) == Turns(tilt) < 64 \/ Turns(tilt) > Turns(PI) - 64

\* mutant: the division by the sine as Python's float division, which raises
_gcr_prime_pyfloat(gcr, height, tilt, pitch) ==
    Add(gcr, Div(PyDiv(height, NpSin(tilt)), pitch))

_gcr_prime(gcr, height, tilt, pitch) ==
    Add(gcr, Div(DivPi(height, NpSinPi(tilt)), pitch))

\* the angle np.arctan2(y, x), kept as its two arguments; its cosine is
\* x / sqrt(x^2 + y^2)
NpArctan2(y, x) == [y |-> y, x |-> x]
\* np.zeros_like(f_z): the angle 0.0
NpZerosLike(f_z) == NpArctan2(Zero, One)

\* what a function of two angles returns, or the exception it raises, with
\* whether numpy warned of a division by zero on the way
Angles(psi_0, psi_1, warned) ==
    IF ~IsNumber(psi_0.y) THEN Stopped(psi_0.y, psi_0.y)
    ELSE IF ~IsNumber(psi_0.x) THEN Stopped(psi_0.x, psi_0.x)
    ELSE IF ~IsNumber(psi_1.y) THEN Stopped(psi_1.y, psi_1.y)
    ELSE IF ~IsNumber(psi_1.x) THEN Stopped(psi_1.x, psi_1.x)
    ELSE [t |-> "angles", psi_0 |-> psi_0, psi_1 |-> psi_1,
          divide_by_zero |-> warned]
\* a statement after gcr_prime = _gcr_prime(...): it is not reached when that
\* call has raised
After(gcr_prime, rest) == IF gcr_prime.t = "exc" THEN gcr_prime ELSE rest

\* lines 225-238, on one element f_z of the array
ground_sky_angles(f_z, gcr, height, tilt, pitch) ==
    IF NearFlat(tilt)
    THEN Angles(NpZerosLike(f_z), NpZerosLike(f_z), FALSE)
    ELSE LET gcr_prime == _gcr_prime(gcr, height, tilt, pitch)
             tilt_prime == AngSub(PI, tilt)
         IN  After(gcr_prime,
                Angles(
                    NpArctan2(NpSin(tilt_prime),
                        Add(Div(f_z, gcr_prime), NpCos(tilt_prime))),
                    NpArctan2(NpSin(tilt),
                        Add(Div(Sub(One, f_z), gcr_prime), NpCos(tilt))),
                    \/ WarnsOfDivide(NpSinPi(tilt))
                    \/ WarnsOfDivide(gcr_prime)))

\* lines 284-301, on one element f_z of the array
ground_sky_angles_prev(f_z, gcr, height, tilt, pitch) ==
    LET gcr_prime == _gcr_prime(gcr, height, tilt, pitch)
        tilt_prime == AngSub(PI, tilt)
        z == Mul(f_z, pitch)
    IN  After(gcr_prime,
            IF NearFlat(tilt)
            THEN Angles(
                    NpArctan2(
                        Add(Mul(gcr, NpSin(tilt_prime)),
                            PyDiv(height, pitch)),
                        Add(Add(One, f_z), Mul(gcr, NpCos(tilt_prime)))),
                    NpArctan2(height, Neg(z)),
                    WarnsOfDivide(NpSinPi(tilt)))
            ELSE Angles(
                    NpArctan2(NpSin(tilt_prime),
                        Add(Div(Add(One, f_z), gcr_prime),
                            NpCos(tilt_prime))),
                    NpArctan2(height,
                        Sub(DivPi(height, NpTanPi(tilt)), z)),
                    \/ WarnsOfDivide(NpSinPi(tilt))
                    \/ WarnsOfDivide(gcr_prime)
                    \/ WarnsOfDivide(NpTanPi(tilt))))

\* lines 383-386: what the near-flat branch of ground_sky_angles_next assigns
ground_sky_angles_next_flat(f_z, gcr, height, tilt, pitch) ==
    LET fzprime == Sub(One, f_z)
        zprime == Mul(fzprime, pitch)
    IN  Angles(
            NpArctan2(height, Neg(zprime)),
            NpArctan2(
                Add(Mul(gcr, NpSin(tilt)), PyDiv(height, pitch)),
                Add(Add(One, fzprime), Mul(gcr, NpCos(tilt)))),
            FALSE)

\* lines 376-392, on one element f_z of the array: the near-flat branch does
\* not return, so lines 389-391 assign psi_0 and psi_1 again for every tilt
ground_sky_angles_next(f_z, gcr, height, tilt, pitch) ==
    LET gcr_prime == _gcr_prime(gcr, height, tilt, pitch)
        tilt_prime == AngSub(PI, tilt)
        fzprime == Sub(One, f_z)
        zprime == Mul(fzprime, pitch)
    IN  After(gcr_prime,
        After(IF NearFlat(tilt)
              THEN ground_sky_angles_next_flat(f_z, gcr, height, tilt, pitch)
              ELSE None,
            Angles(
                NpArctan2(height,
                    Sub(DivPi(height, NpTanPi(tilt_prime)), zprime)),
                NpArctan2(NpSin(tilt),
                    Add(Div(Add(One, fzprime), gcr_prime), NpCos(tilt))),
                \/ WarnsOfDivide(NpSinPi(tilt))
                \/ WarnsOfDivide(NpTanPi(tilt_prime))
                \/ WarnsOfDivide(gcr_prime))))

\* the largest r in lo..hi with r * r <= n
RECURSIVE ISqrtIn(_, _, _)
ISqrtIn(n, lo, hi) ==
    IF lo = hi THEN lo
    ELSE IF ((lo + hi + 1) \div 2) * ((lo + hi + 1) \div 2) <= n
         THEN ISqrtIn(n, (lo + hi + 1) \div 2, hi)
         ELSE ISqrtIn(n, lo, ((lo + hi + 1) \div 2) - 1)
\* the square root of n <= 2 Res^2, rounded up
ISqrtUp(n) ==
    IF ISqrtIn(n, 0, 2 * Res) * ISqrtIn(n, 0, 2 * Res) = n
    THEN ISqrtIn(n, 0, 2 * Res)
    ELSE ISqrtIn(n, 0, 2 * Res) + 1
\* a in [0, 1] in units of 1/Res, rounded down
Scaled(a) == (a.n * Res) \div a.d
\* the larger of |x| and |y|
Larger(y, x) == IF Lt(NpAbs(x), NpAbs(y)) THEN NpAbs(y) ELSE NpAbs(x)

\* np.cos(np.arctan2(y, x)) is x / sqrt(x^2 + y^2), here with x and y
\* divided by the larger of them first, rounded towards 0 to 1/Res; the
\* angle of an infinite x is 0 or pi, of an infinite y alone pi/2, of two
\* infinities an odd multiple of pi/4, and arctan2(0.0, 0.0) is 0
NpCos_finite(y, x) ==
    Fin(Sign(x) *
            ((Scaled(Div(NpAbs(x), Larger(y, x))) * Res)
             \div ISqrtUp(
                 Scaled(Div(NpAbs(x), Larger(y, x)))
                     * Scaled(Div(NpAbs(x), Larger(y, x)))
                 + Scaled(Div(NpAbs(y), Larger(y, x)))
                     * Scaled(Div(NpAbs(y), Larger(y, x))))),
        Res)
NpCosArctan2(psi) ==
    IF psi.y.t = "nan" \/ psi.x.t = "nan" THEN NaN
    ELSE IF psi.x.t = "inf"
         THEN (IF psi.y.t = "inf"
               THEN Fin(Sign(psi.x) * ISqrtIn((Res * Res) \div 2, 0, Res), Res)
               ELSE Num(Sign(psi.x)))
    ELSE IF psi.y.t = "inf" THEN Zero
    ELSE IF psi.y.n = 0 THEN (IF psi.x.n < 0 THEN Num(0 - 1) ELSE One)
    ELSE IF psi.x.n = 0 THEN Zero
    ELSE NpCos_finite(psi.y, psi.x)

\* mutant: the sum of the two cosines not halved
calc_fz_sky_nohalf(psi_0, psi_1) ==
    Add(NpCosArctan2(psi_0), NpCosArctan2(psi_1))

calc_fz_sky(psi_0, psi_1) ==
    Div(Add(NpCosArctan2(psi_0), NpCosArctan2(psi_1)), Num(2))

MAXROWS == 15

f_z0_limit(gcr, height, tilt, pitch) ==
    IF NearFlat(tilt)
    THEN PyDiv(Mul(Num(MAXROWS), height), pitch)
    ELSE Mul(PyDiv(height, pitch),
             Add(DivPi(One, NpTanPi(tilt)),
                 Div(One, sky_angle_0_tangent(gcr, tilt))))

f_z1_limit(gcr, height, tilt, pitch) ==
    IF NearFlat(tilt)
    THEN PyDiv(Mul(Num(MAXROWS), height), pitch)
    ELSE Mul(PyDiv(height, pitch),
             Sub(Div(One, sky_angle_0_tangent(gcr, AngSub(PI, tilt))),
                 DivPi(One, NpTanPi(tilt))))

\* np.linspace(start, stop, num): start + i * step, the last one stop itself
NpLinspace(start, stop, num) ==
    [i \in 1..num |->
        IF i = num /\ num > 1 THEN stop
        ELSE Add(start,
                 Mul(Num(i - 1), Div(Sub(stop, start), Num(num - 1))))]

\* a value of a profile, a multiple of 1/(2 Res), in units of 1/(2 Res)
Units(a) == a.n * ((2 * Res) \div a.d)
\* np.interp(x, xp, fp) at one x between xp[i] and xp[i + 1], the product
\* rounded down to 1/(2 Res)
NpInterp_between(x, xp, fp, i) ==
    IF ~IsFin(fp[i]) \/ ~IsFin(fp[i + 1]) THEN NaN
    ELSE Fin(Units(fp[i])
             + ((Units(fp[i + 1]) - Units(fp[i]))
                    * Div(Sub(x, xp[i]), Sub(xp[i + 1], xp[i])).n)
               \div Div(Sub(x, xp[i]), Sub(xp[i + 1], xp[i])).d,
             2 * Res)
\* np.interp(x, xp, fp) at one x: fp[1] left of xp, fp[-1] right of it.  xp is
\* increasing unless it holds NaN, and what np.interp makes of a NaN is taken
\* as NaN.
NpInterp(x, xp, fp) ==
    IF x.t = "nan" \/ \E i \in 1..Len(xp) : xp[i].t = "nan" THEN NaN
    ELSE IF Le(x, xp[1]) THEN fp[1]
    ELSE IF Le(xp[Len(xp)], x) THEN fp[Len(xp)]
    ELSE NpInterp_between(x, xp, fp,
             CHOOSE i \in 1..(Len(xp) - 1) : Le(xp[i], x) /\ Lt(x, xp[i + 1]))

\* np.trapz(y, x)
RECURSIVE NpTrapz_from(_, _, _)
NpTrapz_from(y, x, i) ==
    IF i >= Len(x) THEN Zero
    ELSE Add(Mul(Sub(x[i + 1], x[i]), Div(Add(y[i], y[i + 1]), Num(2))),
             NpTrapz_from(y, x, i + 1))
NpTrapz(y, x) == NpTrapz_from(y, x, 1)

\* calc_fz_sky(*angles) over the array fz, angles one of the three functions
\* of the ground-to-sky angles
CalcFzSky(angles) == calc_fz_sky(angles.psi_0, angles.psi_1)
fz_sky_current(fz, gcr, height, tilt, pitch) ==
    [i \in 1..Len(fz) |->
        CalcFzSky(ground_sky_angles(fz[i], gcr, height, tilt, pitch))]
fz_sky_next(fz, gcr, height, tilt, pitch) ==
    [i \in 1..Len(fz) |->
        CalcFzSky(ground_sky_angles_prev(fz[i], gcr, height, tilt, pitch))]
fz_sky_prev(fz, gcr, height, tilt, pitch) ==
    [i \in 1..Len(fz) |->
        CalcFzSky(ground_sky_angles_next(fz[i], gcr, height, tilt, pitch))]

\* lines 472-475: the ground between the visible limits, in 3 * npoints points
fz_grid(fz0_limit, fz1_limit, npoints) ==
    NpLinspace(
        IF Lt(Zero, Sub(One, fz1_limit)) THEN Zero ELSE Sub(One, fz1_limit),
        IF Lt(fz0_limit, One) THEN One ELSE fz0_limit,
        3 * npoints)

\* mutant: one more pass when the limit is a whole number of rows
RowsLeft_orequal(limit, row) == Le(Zero, Sub(limit, row))

\* while (fz0_limit - prev_row) > 0, while (fz1_limit - next_row) > 0
RowsLeft(limit, row) == Lt(Zero, Sub(limit, row))

\* np.interp(fz + row, fz, fz_sky), row negative for the rows behind
Shifted(fz, row, fz_sky) ==
    [i \in 1..Len(fz) |-> NpInterp(Add(fz[i], row), fz, fz_sky)]

\* np.sum(profiles, axis=0): 0.0 of an empty list, which broadcasts
RECURSIVE NpSum_at(_, _)
NpSum_at(profiles, i) ==
    IF profiles = << >> THEN Zero
    ELSE Add(profiles[1][i], NpSum_at(Tail(profiles), i))

\* lines 496-501: the view factor at every point, and on the npoints points
\* of one row
fz_sky_total(fz, current, fz0_sky_next, fz1_sky_prev) ==
    [i \in 1..Len(fz) |->
        Add(Add(current[i], NpSum_at(fz0_sky_next, i)),
            NpSum_at(fz1_sky_prev, i))]
fz_sky_of_row(fz_row, fz, fz_sky) ==
    [j \in 1..Len(fz_row) |-> NpInterp(fz_row[j], fz, fz_sky)]

---------------------------------------------------------------------------
(* the inputs the calls are drawn from *)

Rationals == {Fin(n, d) : n \in (0 - MaxNum)..MaxNum, d \in 1..MaxNum}
\* ground coverage ratios in (0, 1]
Gcrs == {r \in Rationals : Lt(Zero, r) /\ Le(r, One)}
Lattice(qs) == {Ang(q, k) : q \in qs, k \in (0 - MaxK)..MaxK}
\* tilts in [0, pi]
Tilts == {a \in Lattice(0..2) : AngLe(Ang(0, 0), a) /\ AngLe(a, PI)}
\* azimuths from below -2 pi to above 4 pi
Azimuths == Lattice((0 - 5)..9)
Irrads == {Num(i) : i \in 0..MaxIrr}
\* bifaciality and the derating factors
Factors == {Fin(n, 2) : n \in (0 - 4)..2}

\* what vf_ground_sky returns is finite; f_sky_diffuse_pv and f_ground_pv
\* return NaN (0/0) at tilt = pi and at tilt = 0
ViewFactors == {
    [vf_gnd_sky |-> Fin(1, 2), f_sky_pv_shade |-> Fin(1, 4),
     f_sky_pv_noshade |-> Fin(3, 4), f_gnd_pv_shade |-> Fin(3, 4),
     f_gnd_pv_noshade |-> Fin(1, 4)],
    [vf_gnd_sky |-> Fin(3, 2), f_sky_pv_shade |-> One,
     f_sky_pv_noshade |-> One, f_gnd_pv_shade |-> Zero,
     f_gnd_pv_noshade |-> Zero],
    [vf_gnd_sky |-> One, f_sky_pv_shade |-> NaN,
     f_sky_pv_noshade |-> NaN, f_gnd_pv_shade |-> NaN,
     f_gnd_pv_noshade |-> NaN] }

\* the sun and the array of a get_irradiance call: every array under a few
\* suns, and a few arrays
AllArrays ==
    [solar_zenith : {Ang(0, 0), Ang(0, 1), Ang(1, 0 - 1)},
     solar_azimuth : {Ang(2, 0), Ang(3, 0)},
     system_azimuth : {Ang(0, 0), Ang(2, 0), Ang(2, 1)},
     gcr : Gcrs, tilt : Tilts]
FewArrays ==
    [solar_zenith : {Ang(0, 1)}, solar_azimuth : {Ang(2, 0)},
     system_azimuth : {Ang(2, 0)}, gcr : {Fin(1, 2), One},
     tilt : {Ang(0, 1), Ang(1, 0), Ang(2, 0 - 1)}]
\* the irradiance of a get_irradiance call: every sky, and a few
AllSkies ==
    [ghi : Irrads, dhi : Irrads, poa_ground : Irrads,
     poa_sky_diffuse : {Zero, Num(MaxIrr)}, poa_direct : {Zero, Num(MaxIrr)},
     iam : {Fin(1, 2), One}]
FewSkies ==
    [ghi : {Num(2)}, dhi : {One}, poa_ground : {One},
     poa_sky_diffuse : {One}, poa_direct : {Zero, Num(2)}, iam : {Fin(1, 2)}]

GetIrradianceIn(a, s, all_output, vf) ==
    [solar_zenith |-> a.solar_zenith, solar_azimuth |-> a.solar_azimuth,
     system_azimuth |-> a.system_azimuth, gcr |-> a.gcr, height |-> One,
     tilt |-> a.tilt, pitch |-> Num(2), ghi |-> s.ghi, dhi |-> s.dhi,
     poa_ground |-> s.poa_ground, poa_sky_diffuse |-> s.poa_sky_diffuse,
     poa_direct |-> s.poa_direct, iam |-> s.iam, npoints |-> 100,
     all_output |-> all_output, vf |-> vf]

\* get_irradiance(**in)
GetIrradianceOf(in) ==
    get_irradiance(in.solar_zenith, in.solar_azimuth, in.system_azimuth,
        in.gcr, in.height, in.tilt, in.pitch, in.ghi, in.dhi, in.poa_ground,
        in.poa_sky_diffuse, in.poa_direct, in.iam, in.npoints, in.all_output,
        in.vf)

\* the orientations of a get_poa_global_bifacial call: a tilt and an azimuth
\* with their mirror images, so that every pair of them is a surface the
\* collaborators can be asked about
Orientations == {Ang(1, 0 - 1), Ang(1, 1)} \X {Ang(0, 0), Ang(2, 0)}
\* the one sun of these calls, low in the north: it shines on the side that
\* faces north
Aois == {irradiance_aoi(o[1], o[2], Ang(1, 0 - 1), Ang(0, 0)) : o \in Orientations}
\* what a transposition may return for a surface
Transposed == {
    [poa_global |-> Num(4), poa_direct |-> Num(2), poa_diffuse |-> Num(2),
     poa_sky_diffuse |-> One, poa_ground_diffuse |-> One],
    [poa_global |-> Num(2), poa_direct |-> Zero, poa_diffuse |-> Num(2),
     poa_sky_diffuse |-> Num(2), poa_ground_diffuse |-> Zero] }
\* the coefficients b0 of the two sides
B0s == {Fin(1, 20), Fin(1, 10)}
\* incidence modifiers that do not grow with the coefficient b
IamTables ==
    {f \in [Aois \X B0s -> {Fin(1, 2), One}] :
        \A a \in Aois : Le(f[<<a, Fin(1, 10)>>], f[<<a, Fin(1, 20)>>])}
\* every pair of collaborators over these orientations; the view factors of a
\* tilt are fixed
Worlds ==
    [transposition : [Orientations -> Transposed],
     iam : IamTables,
     vf : {[t \in {Ang(1, 0 - 1), Ang(1, 1)} |->
               CHOOSE v \in ViewFactors :
                   v.vf_gnd_sky = IF t = Ang(1, 0 - 1) THEN Fin(1, 2)
                                  ELSE Fin(3, 2)]}]

GetPoaGlobalBifacialIn(world, system_azimuth) ==
    [world |-> world, solar_zenith |-> Ang(1, 0 - 1),
     solar_azimuth |-> Ang(0, 0), system_azimuth |-> system_azimuth,
     gcr |-> Fin(1, 2), height |-> One, tilt |-> Ang(1, 0 - 1), pitch |-> Num(2), ghi |-> Num(2), dhi |-> One,
     dni |-> Num(2), dni_extra |-> Num(4), am_rel |-> One,
     iam_b0_front |-> Fin(1, 20), iam_b0_back |-> Fin(1, 10),
     bifaciality |-> Fin(1, 2), shade_factor |-> Zero,
     transmission_factor |-> Zero, method |-> "haydavies"]

\* get_poa_global_bifacial(**in)
GetPoaGlobalBifacialOf(in) ==
    get_poa_global_bifacial(in.world, in.solar_zenith, in.solar_azimuth,
        in.system_azimuth, in.gcr, in.height, in.tilt, in.pitch, in.ghi,
        in.dhi, in.dni, in.dni_extra, in.am_rel, in.iam_b0_front,
        in.iam_b0_back, in.bifaciality, in.shade_factor,
        in.transmission_factor, in.method)

\* the rows of the view factor functions: tilts on both sides of pi/2 and the
\* flat ones, with the heights and pitches of a few arrays
FlatTilts == {Ang(0, 0), PI}
SlopedTilts == {Ang(0, 1), Ang(1, 0 - 1), Ang(1, 0), Ang(2, 0 - 1)}
Rows ==
    [gcr : {Fin(1, 4), Fin(1, 2), One}, height : {Zero, Fin(1, 2), One},
     tilt : FlatTilts \cup SlopedTilts, pitch : {One, Num(2)}]
\* a call of one of the three angle functions at the point f_z of the row
AnglesIn(f_z, row) ==
    [f_z |-> f_z, gcr |-> row.gcr, height |-> row.height, tilt |-> row.tilt,
     pitch |-> row.pitch]

---------------------------------------------------------------------------
(* calls of the module-level functions: a call is drawn, then it returns *)

NoCall == [fn |-> "none", pc |-> "none"]
Calling(fn, in) == [fn |-> fn, in |-> in, pc |-> "call"]
Return(out) ==
    /\ call' = [fn |-> call.fn, in |-> call.in, pc |-> "return", out |-> out]
    /\ UNCHANGED <<sheds, last>>
Called(fn) == call.fn = fn /\ call.pc = "call"
Returned(fn) == call.fn = fn /\ call.pc = "return"

\* the calls that are made
Calls ==
    \/ \E in \in [gcr : Gcrs, tilt : Tilts, tan_phi : Rationals] :
            call = Calling("unshaded_ground_fraction", in)
    \/ \E in \in [gcr : Gcrs, tilt : Tilts, tan_phi : Rationals] :
            call = Calling("shade_line", in)
    \/ \E in \in [poa_global_front : Irrads \cup {Num(0 - 1)},
                   poa_global_back : Irrads \cup {Num(0 - 1)},
                   bifaciality : Factors, shade_factor : Factors,
                   transmission_factor : Factors] :
            call = Calling("poa_global_bifacial", in)
    \/ \E in \in [tilt : Tilts, system_azimuth : Azimuths] :
            call = Calling("_backside", in)
    \/ \E a \in AllArrays, s \in FewSkies, o \in BOOLEAN, vf \in ViewFactors :
            call = Calling("get_irradiance", GetIrradianceIn(a, s, o, vf))
    \/ \E a \in FewArrays, s \in AllSkies, o \in BOOLEAN, vf \in ViewFactors :
            call = Calling("get_irradiance", GetIrradianceIn(a, s, o, vf))
    \/ \E w \in Worlds, system_azimuth \in {Ang(0, 0), Ang(2, 0)} :
            call = Calling("get_poa_global_bifacial",
                           GetPoaGlobalBifacialIn(w, system_azimuth))
    \/ \E f_z \in {Zero, Fin(1, 2), One}, row \in Rows :
            call = Calling("ground_sky_angles", AnglesIn(f_z, row))
    \/ \E f_z \in {Zero, Fin(1, 2), One}, row \in Rows :
            call = Calling("ground_sky_angles_prev", AnglesIn(f_z, row))
    \/ \E f_z \in {Zero, Fin(1, 2), One}, row \in Rows :
            call = Calling("ground_sky_angles_next", AnglesIn(f_z, row))

FnUnshadedGroundFraction ==
    /\ Called("unshaded_ground_fraction")
    /\ Return(unshaded_ground_fraction(
            call.in.gcr, call.in.tilt, call.in.tan_phi))

FnShadeLine ==
    /\ Called("shade_line")
    /\ Return(shade_line(call.in.gcr, call.in.tilt, call.in.tan_phi))

FnPoaGlobalBifacial ==
    /\ Called("poa_global_bifacial")
    /\ Return(poa_global_bifacial(
            call.in.poa_global_front, call.in.poa_global_back,
            call.in.bifaciality, call.in.shade_factor,
            call.in.transmission_factor))

FnBackside ==
    /\ Called("_backside")
    /\ Return(_backside(call.in.tilt, call.in.system_azimuth))

FnGetIrradiance ==
    /\ Called("get_irradiance")
    /\ Return(GetIrradianceOf(call.in))

FnGetPoaGlobalBifacial ==
    /\ Called("get_poa_global_bifacial")
    /\ Return(GetPoaGlobalBifacialOf(call.in))

FnGroundSkyAngles ==
    /\ Called("ground_sky_angles")
    /\ Return(ground_sky_angles(call.in.f_z, call.in.gcr, call.in.height,
            call.in.tilt, call.in.pitch))

FnGroundSkyAnglesPrev ==
    /\ Called("ground_sky_angles_prev")
    /\ Return(ground_sky_angles_prev(call.in.f_z, call.in.gcr,
            call.in.height, call.in.tilt, call.in.pitch))

FnGroundSkyAnglesNext ==
    /\ Called("ground_sky_angles_next")
    /\ Return(ground_sky_angles_next(call.in.f_z, call.in.gcr,
            call.in.height, call.in.tilt, call.in.pitch))

InitFn == Calls /\ sheds = None /\ last = NoCall

NextFn ==
    \/ FnUnshadedGroundFraction
    \/ FnShadeLine
    \/ FnPoaGlobalBifacial
    \/ FnBackside
    \/ FnGetIrradiance
    \/ FnGetPoaGlobalBifacial
    \/ FnGroundSkyAngles
    \/ FnGroundSkyAnglesPrev
    \/ FnGroundSkyAnglesNext

SpecFn == InitFn /\ [][NextFn]_vars

---------------------------------------------------------------------------
(* vf_ground_sky and the loops over rows of ground_sky_diffuse_view_factor *)

\* the rows whose view factor is integrated: flat and sloped, on the ground
\* and above it, sparse and dense, and one of infinite height
VfInputs ==
    [gcr : {Fin(1, 20), Fin(1, 2)},
     tilt : {Ang(0, 0), Ang(0, 1), Ang(1, 0), Ang(2, 0 - 1), PI},
     size : {<<Zero, Num(2)>>, <<One, Num(2)>>, <<Fin(1, 5), One>>,
             <<PInf, Num(2)>>},
     npoints : {2, 3}]
VfIn(i) ==
    [gcr |-> i.gcr, height |-> i.size[1], tilt |-> i.tilt,
     pitch |-> i.size[2], npoints |-> i.npoints]

InitVf ==
    /\ \E i \in VfInputs : call = Calling("vf_ground_sky", VfIn(i))
    /\ sheds = None
    /\ last = NoCall

\* a step inside ground_sky_diffuse_view_factor: the names in fields are
\* bound, the others keep their values
Step(pc, fields) ==
    /\ call' = [k \in (DOMAIN call) \cup (DOMAIN fields) |->
                   IF k = "pc" THEN pc
                   ELSE IF k \in DOMAIN fields THEN fields[k] ELSE call[k]]
    /\ UNCHANGED <<sheds, last>>

\* lines 466-483: the limits, the points, the front edge profile
VfLimits ==
    /\ Called("vf_ground_sky")
    /\ \E fz0_limit \in {f_z0_limit(call.in.gcr, call.in.height,
                             call.in.tilt, call.in.pitch)},
          fz1_limit \in {f_z1_limit(call.in.gcr, call.in.height,
                             call.in.tilt, call.in.pitch)} :
        \E fz \in {fz_grid(fz0_limit, fz1_limit, call.in.npoints)} :
            Step("rows_ahead",
                 [fz0_limit |-> fz0_limit, fz1_limit |-> fz1_limit,
                  fz |-> fz,
                  fz_sky_next |-> fz_sky_next(fz, call.in.gcr,
                      call.in.height, call.in.tilt, call.in.pitch),
                  fz0_sky_next |-> << >>, prev_row |-> Zero])

\* lines 485-487: a pass of the loop over the rows ahead
VfRowAhead ==
    /\ call.pc = "rows_ahead"
    /\ RowsLeft(call.fz0_limit, call.prev_row)
    /\ Len(call.fz0_sky_next) < MaxPasses
    /\ Step("rows_ahead",
            [fz0_sky_next |-> Append(call.fz0_sky_next,
                 Shifted(call.fz, call.prev_row, call.fz_sky_next)),
             prev_row |-> Add(call.prev_row, One)])

\* lines 488-492: the loop over the rows ahead is left, the back edge profile
VfBackEdge ==
    /\ call.pc = "rows_ahead"
    /\ ~RowsLeft(call.fz0_limit, call.prev_row)
    /\ Step("rows_behind",
            [fz_sky_prev |-> fz_sky_prev(call.fz, call.in.gcr,
                 call.in.height, call.in.tilt, call.in.pitch),
             fz1_sky_prev |-> << >>, next_row |-> Zero])

\* lines 494-496: a pass of the loop over the rows behind
VfRowBehind ==
    /\ call.pc = "rows_behind"
    /\ RowsLeft(call.fz1_limit, call.next_row)
    /\ Len(call.fz1_sky_prev) < MaxPasses
    /\ Step("rows_behind",
            [fz1_sky_prev |-> Append(call.fz1_sky_prev,
                 Shifted(call.fz, Neg(call.next_row), call.fz_sky_prev)),
             next_row |-> Add(call.next_row, One)])

\* lines 497-504: the loop over the rows behind is left, the sum, and what
\* ground_sky_diffuse_view_factor returns: fz_row and the profile on it
VfProfile ==
    /\ call.pc = "rows_behind"
    /\ ~RowsLeft(call.fz1_limit, call.next_row)
    /\ \E fz_sky \in {fz_sky_total(call.fz,
                          fz_sky_current(call.fz, call.in.gcr, call.in.height,
                              call.in.tilt, call.in.pitch),
                          call.fz0_sky_next, call.fz1_sky_prev)},
          fz_row \in {NpLinspace(Zero, One, call.in.npoints)} :
        Step("profile",
             [fz_sky |-> fz_sky, z_star |-> fz_row,
              fz_sky_row |-> fz_sky_of_row(fz_row, call.fz, fz_sky)])

\* lines 527-532: vf_ground_sky integrates the profile and returns
VfGroundSky ==
    /\ call.fn = "vf_ground_sky" /\ call.pc = "profile"
    /\ Return(<<NpTrapz(call.fz_sky_row, call.z_star), call.fz_sky_row>>)

NextVf ==
    \/ VfLimits
    \/ VfRowAhead
    \/ VfBackEdge
    \/ VfRowBehind
    \/ VfProfile
    \/ VfGroundSky

\* a call that is running goes on
SpecVf == InitVf /\ [][NextVf]_vars /\ WF_vars(NextVf)

---------------------------------------------------------------------------
(* the InfiniteSheds object *)

\* _PVSurface(*args): the 18 positional arguments become the attributes
_PVSurface(args) ==
    [poa_global_pv |-> args[1], poa_direct_pv |-> args[2],
     poa_diffuse_pv |-> args[3], poa_ground_pv |-> args[4],
     poa_sky_diffuse_pv |-> args[5], tan_phi |-> args[6],
     f_gnd_beam |-> args[7], df |-> args[8], poa_ground_sky |-> args[9],
     f_x |-> args[10], tan_psi_top |-> args[11], tan_psi_top_0 |-> args[12],
     f_sky_pv_shade |-> args[13], f_sky_pv_noshade |-> args[14],
     tan_psi_bottom |-> args[15], tan_psi_bottom_1 |-> args[16],
     f_gnd_pv_shade |-> args[17], f_gnd_pv_noshade |-> args[18]]

\* *output: iterating an OrderedDict, or a DataFrame, gives its keys
Star(output) == [i \in 1..Len(output) |-> Str(output[i].key)]
\* list(output.values())
Values(output) == [i \in 1..Len(output) |-> output[i].val]

InfiniteSheds_init(system_azimuth, gcr, height, tilt, pitch, npoints, is_bifacial, bifaciality, shade_factor, transmission_factor) ==
    [system_azimuth |-> system_azimuth, gcr |-> gcr, height |-> height,
     tilt |-> tilt, pitch |-> pitch, npoints |-> npoints,
     is_bifacial |-> is_bifacial,
     bifaciality |-> IF is_bifacial THEN bifaciality ELSE Zero,
     shade_factor |-> shade_factor,
     transmission_factor |-> transmission_factor,
     backside_tilt |-> _backside(tilt, system_azimuth)[1],
     backside_sysaz |-> _backside(tilt, system_azimuth)[2],
     tan_phi |-> None, f_gnd_beam |-> None, df |-> None,
     front_side |-> None, back_side |-> None, poa_global_bifacial |-> None]

\* the two get_irradiance calls of InfiniteSheds.get_irradiance on self
FrontOutput(self, in) ==
    get_irradiance(in.solar_zenith, in.solar_azimuth, self.system_azimuth,
        self.gcr, self.height, self.tilt, self.pitch, in.ghi, in.dhi,
        in.poa_ground, in.poa_sky_diffuse, in.poa_direct, in.iam,
        self.npoints, TRUE, in.vf_front)
BackOutput(self, in) ==
    get_irradiance(in.solar_zenith, in.solar_azimuth, self.backside_sysaz,
        self.gcr, self.height, self.backside_tilt, self.pitch, in.ghi,
        in.dhi, in.poa_ground, in.poa_sky_diffuse, in.poa_direct, in.iam,
        self.npoints, TRUE, in.vf_back)

\* mutant: the array is mirrored in place for the evaluation of its back side
FrontAssigned_mirrored(self, front_side) ==
    [self EXCEPT !.front_side = front_side,
                 !.tan_phi = front_side.tan_phi,
                 !.f_gnd_beam = front_side.f_gnd_beam,
                 !.df = front_side.df,
                 !.tilt = self.backside_tilt,
                 !.system_azimuth = self.backside_sysaz]

\* lines 1121-1128: self after the assignments of the front surface
FrontAssigned(self, front_side) ==
    [self EXCEPT !.front_side = front_side,
                 !.tan_phi = front_side.tan_phi,
                 !.f_gnd_beam = front_side.f_gnd_beam,
                 !.df = front_side.df]

\* InfiniteSheds.get_irradiance(self, **in): the attributes it leaves and
\* what it returns or raises.  A raise leaves the assignments made before it.
InfiniteSheds_get_irradiance(in) ==
    \E front_side \in {_PVSurface(Star(FrontOutput(sheds, in)))} :
        LET s1 == FrontAssigned(sheds, front_side)
        IN  IF Lt(Zero, sheds.bifaciality)
            THEN \E back_side \in {_PVSurface(Star(BackOutput(sheds, in)))} :
                 \E bifi \in {poa_global_bifacial(
                         front_side.poa_global_pv, back_side.poa_global_pv,
                         sheds.bifaciality, sheds.shade_factor,
                         sheds.transmission_factor)} :
                     IF bifi.t = "exc"
                     THEN /\ sheds' = [s1 EXCEPT !.back_side = back_side]
                          /\ last' = [pc |-> "raise", in |-> in, ret |-> bifi]
                     ELSE /\ sheds' = [s1 EXCEPT !.back_side = back_side,
                                                 !.poa_global_bifacial = bifi]
                          /\ last' = [pc |-> "return", in |-> in, ret |-> bifi]
            ELSE /\ sheds' = s1
                 /\ last' = [pc |-> "return", in |-> in,
                             ret |-> front_side.poa_global_pv]

\* the arrays that are built: __init__ takes every gcr it is given
Init ==
    /\ call = NoCall
    /\ last = [pc |-> "none"]
    /\ \E system_azimuth \in {Ang(2, 0), Ang(0 - 1, 1)},
          gcr \in {Fin(1, 2), Fin(0 - 1, 2)},
          tilt \in {Ang(0, 0), Ang(0, 1), Ang(1, 0)},
          is_bifacial \in BOOLEAN,
          bifaciality \in {Zero, Fin(4, 5), Fin(0 - 1, 2)},
          shade_factor \in {Fin(0 - 1, 50), Zero} :
            sheds = InfiniteSheds_init(system_azimuth, gcr, One, tilt,
                        Num(2), 100, is_bifacial, bifaciality, shade_factor,
                        Zero)

\* the inputs of its calls
ShedsViewFactors == {vf \in ViewFactors : vf.vf_gnd_sky # One}
ShedsInputs ==
    [solar_zenith : {Ang(0, 0), Ang(0, 1)}, solar_azimuth : {Ang(2, 0)},
     ghi : {Zero, Num(2)}, dhi : {One}, poa_ground : {One},
     poa_sky_diffuse : {One}, poa_direct : {Num(2)}, iam : {One},
     vf_front : ShedsViewFactors, vf_back : ShedsViewFactors]

GetIrradiance ==
    /\ \E in \in ShedsInputs : InfiniteSheds_get_irradiance(in)
    /\ UNCHANGED call

Next == GetIrradiance

Spec == Init /\ [][Next]_vars

---------------------------------------------------------------------------
(* properties of the module-level functions, under SpecFn *)

\* C1: unshaded_ground_fraction(gcr, tilt, tan_phi) is in [0, 1] for every
\* gcr in (0, 1], tilt in [0, pi] and real tan_phi of either sign.
C1_UnshadedGroundFractionInUnit ==
    Returned("unshaded_ground_fraction") =>
        Le(Zero, call.out) /\ Le(call.out, One)

\* a call with a negative tan_phi that leaves part of the ground unshaded
C1_Witness ==
    /\ Returned("unshaded_ground_fraction")
    /\ Lt(call.in.tan_phi, Zero)
    /\ Lt(Zero, call.out) /\ Lt(call.out, One)

\* cos(tilt) + sin(tilt) * tan_phi, the divisor of shade_line
ShadeDivisor(in) == Add(NpCos(in.tilt), Mul(NpSin(in.tilt), in.tan_phi))

\* C2: shade_line(gcr, tilt, tan_phi) is in [0, 1] for every gcr in (0, 1],
\* tilt in [0, pi] and real tan_phi, also where cos(tilt) + sin(tilt)*tan_phi
\* is zero or negative; the call returns a number, it raises nothing.
C2_ShadeLineInUnit ==
    Returned("shade_line") =>
        IsFin(call.out) /\ Le(Zero, call.out) /\ Le(call.out, One)

\* a call whose divisor is zero
C2_Witness ==
    /\ Returned("shade_line")
    /\ ShadeDivisor(call.in) = Zero
    /\ call.out = Zero

\* C5: poa_global_bifacial(front, back, 0, shade_factor, transmission_factor)
\* is front.
C5_ZeroBifacialityIsFront ==
    Returned("poa_global_bifacial") /\ call.in.bifaciality = Zero =>
        call.out = call.in.poa_global_front

\* a call with bifaciality 0 whose back side would count
C5_Witness ==
    /\ Returned("poa_global_bifacial")
    /\ call.in.bifaciality = Zero
    /\ Lt(Zero, call.in.poa_global_back)
    /\ Lt(Zero, Add(One, call.in.shade_factor))
    /\ Lt(Zero, Add(One, call.in.transmission_factor))

\* the call's result with another bifaciality
WithBifaciality(in, b) ==
    poa_global_bifacial(in.poa_global_front, in.poa_global_back, b,
        in.shade_factor, in.transmission_factor)
Effects(in) ==
    Mul(Add(One, in.shade_factor), Add(One, in.transmission_factor))

\* C6 as claimed: for back >= 0 and every shade_factor and
\* transmission_factor, b1 <= b2 implies
\* poa_global_bifacial(.., b1, ..) <= poa_global_bifacial(.., b2, ..).
C6_Original ==
    Returned("poa_global_bifacial") /\ Le(Zero, call.in.poa_global_back) =>
        \A b2 \in Factors :
            Le(call.in.bifaciality, b2) =>
                Le(call.out, WithBifaciality(call.in, b2))

\* C6: for back >= 0 and shade_factor, transmission_factor with
\* (1 + shade_factor) * (1 + transmission_factor) >= 0, b1 <= b2 implies
\* poa_global_bifacial(.., b1, ..) <= poa_global_bifacial(.., b2, ..).
C6_MonotoneInBifaciality ==
    /\ Returned("poa_global_bifacial")
    /\ Le(Zero, call.in.poa_global_back)
    /\ Le(Zero, Effects(call.in))
    => \A b2 \in Factors :
            Le(call.in.bifaciality, b2) =>
                Le(call.out, WithBifaciality(call.in, b2))

\* a call that a larger bifaciality strictly raises
C6_Witness ==
    /\ Returned("poa_global_bifacial")
    /\ Lt(Zero, call.in.poa_global_back)
    /\ Lt(Zero, Effects(call.in))
    /\ \E b2 \in Factors :
            /\ Lt(call.in.bifaciality, b2)
            /\ Lt(call.out, WithBifaciality(call.in, b2))

\* C7: _backside(tilt, az) is (pi - tilt, (pi + az) mod 2 pi), and _backside
\* of that is (tilt, az mod 2 pi), for every tilt in [0, pi] and every
\* azimuth, negative ones and ones of 2 pi and more included.
C7_BacksideInvolution ==
    Returned("_backside") =>
        /\ call.out = <<AngSub(PI, call.in.tilt),
                        AngMod2Pi(AngAdd(PI, call.in.system_azimuth))>>
        /\ _backside(call.out[1], call.out[2])
               = <<call.in.tilt, AngMod2Pi(call.in.system_azimuth)>>

\* a call with a negative azimuth that the round trip does not give back
C7_Witness ==
    /\ Returned("_backside")
    /\ AngLt(call.in.system_azimuth, Ang(0, 0))
    /\ _backside(call.out[1], call.out[2])[2] # call.in.system_azimuth
    /\ AngLt(Ang(0, 0), call.in.tilt) /\ AngLt(call.in.tilt, PI)

\* C8 as claimed: with the sun overhead the projection tangent is 0 and the
\* unshaded ground fraction is 1 - gcr*cos(tilt), for every tilt in [0, pi].
C8_Original ==
    /\ Returned("get_irradiance") /\ call.in.all_output
    /\ call.in.solar_zenith = Ang(0, 0)
    => /\ GetItem(call.out, "solar_projection") = Zero
       /\ GetItem(call.out, "ground_illumination")
              = Sub(One, Mul(call.in.gcr, NpCos(call.in.tilt)))

\* C8: with the sun overhead, for every solar and system azimuth, gcr in
\* (0, 1] and tilt in [0, pi], the projection tangent is 0 and the unshaded
\* ground fraction is 1 - gcr*|cos(tilt)|.
C8_SunOverhead ==
    /\ Returned("get_irradiance") /\ call.in.all_output
    /\ call.in.solar_zenith = Ang(0, 0)
    => /\ GetItem(call.out, "solar_projection") = Zero
       /\ GetItem(call.out, "ground_illumination")
              = Sub(One, Mul(call.in.gcr, NpAbs(NpCos(call.in.tilt))))

\* the sun overhead above a back-side tilt, the array turned off the sun
C8_Witness ==
    /\ Returned("get_irradiance") /\ call.in.all_output
    /\ call.in.solar_zenith = Ang(0, 0)
    /\ call.in.solar_azimuth # call.in.system_azimuth
    /\ Lt(NpCos(call.in.tilt), Zero)
    /\ Lt(Zero, GetItem(call.out, "ground_illumination"))

Poa(output) == SubSeq(output, 1, 5)

C11_DirectOnUnshadedFraction ==
    Returned("get_irradiance") /\ call.in.all_output =>
        LET f_x == GetItem(call.out, "shade_line")
            direct == GetItem(call.out, "poa_direct_pv")
            full == Mul(call.in.poa_direct, call.in.iam)
        IN  /\ Le(Zero, f_x) /\ Le(f_x, One)
            /\ direct = Mul(full, Sub(One, f_x))
            /\ f_x = One => direct = Zero
            /\ f_x = Zero => direct = full
            /\ Le(Zero, call.in.poa_direct) /\ Le(Zero, call.in.iam) =>
                   Le(Zero, direct) /\ Le(direct, full)

\* a fully shaded module under a direct beam
C11_Witness ==
    /\ Returned("get_irradiance") /\ call.in.all_output
    /\ Lt(Zero, call.in.poa_direct) /\ Lt(Zero, call.in.iam)
    /\ GetItem(call.out, "shade_line") = One
    /\ GetItem(call.out, "poa_direct_pv") = Zero

\* C12: in every result of get_irradiance
\* poa_diffuse_pv = poa_ground_diffuse_pv + poa_sky_diffuse_pv and
\* poa_global_pv = poa_direct_pv + poa_diffuse_pv.
C12_ComponentsAddUp ==
    Returned("get_irradiance") =>
        /\ GetItem(call.out, "poa_diffuse_pv")
               = Add(GetItem(call.out, "poa_ground_diffuse_pv"),
                     GetItem(call.out, "poa_sky_diffuse_pv"))
        /\ GetItem(call.out, "poa_global_pv")
               = Add(GetItem(call.out, "poa_direct_pv"),
                     GetItem(call.out, "poa_diffuse_pv"))

\* a result whose three components are all positive
C12_Witness ==
    /\ Returned("get_irradiance")
    /\ Lt(Zero, GetItem(call.out, "poa_direct_pv"))
    /\ Lt(Zero, GetItem(call.out, "poa_ground_diffuse_pv"))
    /\ Lt(Zero, GetItem(call.out, "poa_sky_diffuse_pv"))
    /\ Lt(GetItem(call.out, "poa_diffuse_pv"),
          GetItem(call.out, "poa_global_pv"))

\* C13: get_irradiance returns exactly the five keys poa_global_pv,
\* poa_direct_pv, poa_diffuse_pv, poa_ground_diffuse_pv, poa_sky_diffuse_pv in
\* that order when all_output is false, and those followed by exactly 13
\* diagnostic keys when it is true, the 18 values in the order of the 18
\* positional parameters of _PVSurface.
C13_KeysOfResult ==
    Returned("get_irradiance") =>
        IF call.in.all_output
        THEN /\ Keys(call.out) = <<
                    "poa_global_pv", "poa_direct_pv", "poa_diffuse_pv",
                    "poa_ground_diffuse_pv", "poa_sky_diffuse_pv",
                    "solar_projection", "ground_illumination",
                    "diffuse_fraction", "poa_ground_sky", "shade_line",
                    "sky_angle_tangent", "sky_angle_0_tangent",
                    "f_sky_diffuse_pv_shade", "f_sky_diffuse_pv_noshade",
                    "ground_angle_tangent", "ground_angle_1_tangent",
                    "f_ground_diffuse_pv_shade",
                    "f_ground_diffuse_pv_noshade" >>
             /\ _PVSurface(Values(call.out)) =
                    [poa_global_pv |-> GetItem(call.out, "poa_global_pv"),
                     poa_direct_pv |-> GetItem(call.out, "poa_direct_pv"),
                     poa_diffuse_pv |-> GetItem(call.out, "poa_diffuse_pv"),
                     poa_ground_pv |->
                         GetItem(call.out, "poa_ground_diffuse_pv"),
                     poa_sky_diffuse_pv |->
                         GetItem(call.out, "poa_sky_diffuse_pv"),
                     tan_phi |-> GetItem(call.out, "solar_projection"),
                     f_gnd_beam |-> GetItem(call.out, "ground_illumination"),
                     df |-> GetItem(call.out, "diffuse_fraction"),
                     poa_ground_sky |-> GetItem(call.out, "poa_ground_sky"),
                     f_x |-> GetItem(call.out, "shade_line"),
                     tan_psi_top |-> GetItem(call.out, "sky_angle_tangent"),
                     tan_psi_top_0 |->
                         GetItem(call.out, "sky_angle_0_tangent"),
                     f_sky_pv_shade |->
                         GetItem(call.out, "f_sky_diffuse_pv_shade"),
                     f_sky_pv_noshade |->
                         GetItem(call.out, "f_sky_diffuse_pv_noshade"),
                     tan_psi_bottom |->
                         GetItem(call.out, "ground_angle_tangent"),
                     tan_psi_bottom_1 |->
                         GetItem(call.out, "ground_angle_1_tangent"),
                     f_gnd_pv_shade |->
                         GetItem(call.out, "f_ground_diffuse_pv_shade"),
                     f_gnd_pv_noshade |->
                         GetItem(call.out, "f_ground_diffuse_pv_noshade")]
        ELSE Keys(call.out) = <<
                 "poa_global_pv", "poa_direct_pv", "poa_diffuse_pv",
                 "poa_ground_diffuse_pv", "poa_sky_diffuse_pv" >>

\* a result with the five keys only, of a call that has all 18 when asked
C13_Witness ==
    /\ Returned("get_irradiance") /\ ~call.in.all_output
    /\ Len(call.out) = 5
    /\ Len(GetIrradianceOf([call.in EXCEPT !.all_output = TRUE])) = 18
    /\ GetItem(call.out, "poa_global_pv")
           # GetItem(call.out, "poa_direct_pv")

\* C14: get_poa_global_bifacial evaluates the two sides independently and
\* combines them: the back side is the mirrored pair (pi - tilt,
\* (pi + system_azimuth) mod 2 pi) in its angle of incidence, its
\* transposition and its get_irradiance call alike; each side has the
\* transposed components and the incidence modifier of its own orientation
\* and its own iam_b0; the result is poa_global_bifacial of the two sides'
\* poa_global_pv.
C14_BackSideMirrored ==
    Returned("get_poa_global_bifacial") =>
        LET in == call.in
            world == in.world
            mirror_tilt == AngSub(PI, in.tilt)
            mirror_sysaz == AngMod2Pi(AngAdd(PI, in.system_azimuth))
            front == world.transposition[<<in.tilt, in.system_azimuth>>]
            back == world.transposition[<<mirror_tilt, mirror_sysaz>>]
            iam_front == world.iam[<<
                irradiance_aoi(in.tilt, in.system_azimuth, in.solar_zenith,
                               in.solar_azimuth),
                in.iam_b0_front>>]
            iam_back == world.iam[<<
                irradiance_aoi(mirror_tilt, mirror_sysaz, in.solar_zenith,
                               in.solar_azimuth),
                in.iam_b0_back>>]
            poa_front == GetIrradianceOf(
                [solar_zenith |-> in.solar_zenith,
                 solar_azimuth |-> in.solar_azimuth,
                 system_azimuth |-> in.system_azimuth, gcr |-> in.gcr,
                 height |-> in.height, tilt |-> in.tilt, pitch |-> in.pitch,
                 ghi |-> in.ghi, dhi |-> in.dhi,
                 poa_ground |-> front.poa_ground_diffuse,
                 poa_sky_diffuse |-> front.poa_sky_diffuse,
                 poa_direct |-> front.poa_direct, iam |-> iam_front,
                 npoints |-> 100, all_output |-> FALSE,
                 vf |-> world.vf[in.tilt]])
            poa_back == GetIrradianceOf(
                [solar_zenith |-> in.solar_zenith,
                 solar_azimuth |-> in.solar_azimuth,
                 system_azimuth |-> mirror_sysaz, gcr |-> in.gcr,
                 height |-> in.height, tilt |-> mirror_tilt,
                 pitch |-> in.pitch, ghi |-> in.ghi, dhi |-> in.dhi,
                 poa_ground |-> back.poa_ground_diffuse,
                 poa_sky_diffuse |-> back.poa_sky_diffuse,
                 poa_direct |-> back.poa_direct, iam |-> iam_back,
                 npoints |-> 100, all_output |-> FALSE,
                 vf |-> world.vf[mirror_tilt]])
        IN  call.out = Add(
                GetItem(poa_front, "poa_global_pv"),
                Mul(Mul(GetItem(poa_back, "poa_global_pv"), in.bifaciality),
                    Mul(Add(One, in.shade_factor),
                        Add(One, in.transmission_factor))))

\* a call whose two sides are transposed differently and have different
\* incidence modifiers, with the sun on the back side
C14_Witness ==
    /\ Returned("get_poa_global_bifacial")
    /\ call.in.system_azimuth # call.in.solar_azimuth
    /\ call.in.world.transposition[<<call.in.tilt, call.in.system_azimuth>>]
           # call.in.world.transposition[
                 <<_backside(call.in.tilt, call.in.system_azimuth)[1],
                   _backside(call.in.tilt, call.in.system_azimuth)[2]>>]
    /\ call.in.world.iam[<<
           irradiance_aoi(call.in.tilt, call.in.system_azimuth,
               call.in.solar_zenith, call.in.solar_azimuth),
           call.in.iam_b0_back>>]
           # call.in.world.iam[<<
                 irradiance_aoi(
                     _backside(call.in.tilt, call.in.system_azimuth)[1],
                     _backside(call.in.tilt, call.in.system_azimuth)[2],
                     call.in.solar_zenith, call.in.solar_azimuth),
                 call.in.iam_b0_back>>]
    /\ IsFin(call.out) /\ Lt(Zero, call.out)

\* a call of one of the three functions of the ground-to-sky angles
AnglesCall ==
    call.fn \in {"ground_sky_angles", "ground_sky_angles_prev",
                 "ground_sky_angles_next"}

SameAngles(out, psi_0, psi_1) ==
    /\ out.t = "angles"
    /\ NpCosArctan2(out.psi_0) = NpCosArctan2(psi_0)
    /\ NpCosArctan2(out.psi_1) = NpCosArctan2(psi_1)

\* C21: on a near-flat tilt ground_sky_angles_prev and ground_sky_angles_next
\* each return the angles of their near-flat case, arctan2(height, -z) and
\* arctan2(gcr*sin + height/pitch, 1 + f + gcr*cos), which do not use
\* gcr_prime, and not those of the general formulas; f_z0_limit and f_z1_limit
\* return MAXROWS * height / pitch there.
C21_NearFlatAngles ==
    /\ Returned("ground_sky_angles_prev") /\ NearFlat(call.in.tilt) =>
           SameAngles(call.out,
               NpArctan2(
                   Add(Mul(call.in.gcr, NpSin(AngSub(PI, call.in.tilt))),
                       Div(call.in.height, call.in.pitch)),
                   Add(Add(One, call.in.f_z),
                       Mul(call.in.gcr, NpCos(AngSub(PI, call.in.tilt))))),
               NpArctan2(call.in.height,
                   Neg(Mul(call.in.f_z, call.in.pitch))))
    /\ Returned("ground_sky_angles_next") /\ NearFlat(call.in.tilt) =>
           SameAngles(call.out,
               NpArctan2(call.in.height,
                   Neg(Mul(Sub(One, call.in.f_z), call.in.pitch))),
               NpArctan2(
                   Add(Mul(call.in.gcr, NpSin(call.in.tilt)),
                       Div(call.in.height, call.in.pitch)),
                   Add(Add(One, Sub(One, call.in.f_z)),
                       Mul(call.in.gcr, NpCos(call.in.tilt)))))
    /\ AnglesCall /\ NearFlat(call.in.tilt) =>
           /\ f_z0_limit(call.in.gcr, call.in.height, call.in.tilt,
                  call.in.pitch)
                  = Div(Mul(Num(MAXROWS), call.in.height), call.in.pitch)
           /\ f_z1_limit(call.in.gcr, call.in.height, call.in.tilt,
                  call.in.pitch)
                  = Div(Mul(Num(MAXROWS), call.in.height), call.in.pitch)

---------------------------------------------------------------------------
(* properties of the InfiniteSheds object, under Spec *)

FrontValue(k) == GetItem(FrontOutput(sheds, last.in), k)
BackValue(k) == GetItem(BackOutput(sheds, last.in), k)

\* C3: a call on a bifacial model (bifaciality > 0) returns
\* front + back*bifaciality*(1+shade_factor)*(1+transmission_factor), front
\* and back the poa_global_pv of get_irradiance for the front and for the
\* mirrored back geometry.
C3_ReturnsCombinedPoa ==
    last.pc # "none" /\ Lt(Zero, sheds.bifaciality) =>
        /\ last.pc = "return"
        /\ last.ret = poa_global_bifacial(
               FrontValue("poa_global_pv"), BackValue("poa_global_pv"),
               sheds.bifaciality, sheds.shade_factor,
               sheds.transmission_factor)

\* C4: after any calls front_side, and back_side when bifaciality > 0, hold
\* field by field the values get_irradiance(all_output=True) computed in the
\* last call, and tan_phi, f_gnd_beam and df those of its front surface.
C4_CacheHoldsLastValues ==
    last.pc # "none" =>
        /\ sheds.front_side = _PVSurface(Values(FrontOutput(sheds, last.in)))
        /\ Lt(Zero, sheds.bifaciality) =>
               sheds.back_side = _PVSurface(Values(BackOutput(sheds, last.in)))
        /\ sheds.tan_phi = FrontValue("solar_projection")
        /\ sheds.f_gnd_beam = FrontValue("ground_illumination")
        /\ sheds.df = FrontValue("diffuse_fraction")

\* C16: InfiniteSheds.__init__ rejects a non-physical configuration (gcr <= 0,
\* pitch <= 0, height < 0, tilt outside [0, pi]) with a configuration error,
\* so no evaluation ever runs on one: an array that has been evaluated has a
\* physical configuration.
C16_ConfigurationValidated ==
    last.pc # "none" =>
    /\ Lt(Zero, sheds.gcr)
    /\ Lt(Zero, sheds.pitch)
    /\ Le(Zero, sheds.height)
    /\ AngLe(Ang(0, 0), sheds.tilt) /\ AngLe(sheds.tilt, PI)

\* C22: an array built with is_bifacial = False, or with bifaciality <= 0,
\* has a bifaciality that is 0, respectively not positive, and after any
\* calls its back side has not been evaluated: back_side and
\* poa_global_bifacial are None, and every call has returned the
\* poa_global_pv that get_irradiance computed for the front surface.
C22_FrontOnly ==
    ~sheds.is_bifacial \/ Le(sheds.bifaciality, Zero) =>
        /\ ~sheds.is_bifacial => sheds.bifaciality = Zero
        /\ Le(sheds.bifaciality, Zero)
        /\ sheds.back_side = None /\ sheds.poa_global_bifacial = None
        /\ last.pc # "none" =>
               /\ last.pc = "return"
               /\ last.ret = FrontValue("poa_global_pv")

\* the attributes __init__ sets from its arguments, and those that hold the
\* results of the last call
ConfigurationFields ==
    {"system_azimuth", "gcr", "height", "tilt", "pitch", "npoints",
     "is_bifacial", "bifaciality", "shade_factor", "transmission_factor",
     "backside_tilt", "backside_sysaz"}
CacheFields ==
    {"front_side", "back_side", "tan_phi", "f_gnd_beam", "df",
     "poa_global_bifacial"}
Mirrored(self) ==
    /\ self.backside_tilt = AngSub(PI, self.tilt)
    /\ self.backside_sysaz = AngMod2Pi(AngAdd(PI, self.system_azimuth))

\* C23: get_irradiance leaves the configuration of the array as __init__ set
\* it, also when the call raises: system_azimuth, gcr, height, tilt, pitch,
\* npoints, is_bifacial, bifaciality, shade_factor, transmission_factor,
\* backside_tilt and backside_sysaz keep their values, backside_tilt being
\* pi - tilt and backside_sysaz (pi + system_azimuth) mod 2 pi; a call writes
\* only front_side, back_side, tan_phi, f_gnd_beam, df and
\* poa_global_bifacial.
C23_ConfigurationUnchanged ==
    [][/\ \A k \in ConfigurationFields : sheds'[k] = sheds[k]
       /\ DOMAIN sheds = ConfigurationFields \cup CacheFields
       /\ DOMAIN sheds' = DOMAIN sheds
       /\ Mirrored(sheds) /\ Mirrored(sheds')
       /\ call' = call]_vars

\* a call that has raised after it wrote both surfaces, on an array whose
\* back side azimuth wraps around
C23_Witness ==
    /\ last.pc = "raise"
    /\ sheds.front_side # None /\ sheds.back_side # None
    /\ sheds.poa_global_bifacial = None
    /\ sheds.backside_sysaz # AngAdd(PI, sheds.system_azimuth)

---------------------------------------------------------------------------
(* properties of vf_ground_sky and its loops over rows, under SpecVf *)

\* a geometry that is valid: gcr in (0, 1], a finite height >= 0, pitch > 0
\* and a tilt in [0, pi]
ValidGeometry(in) ==
    /\ Lt(Zero, in.gcr) /\ Le(in.gcr, One)
    /\ IsFin(in.height) /\ Le(Zero, in.height)
    /\ IsFin(in.pitch) /\ Lt(Zero, in.pitch)
    /\ AngLe(Ang(0, 0), in.tilt) /\ AngLe(in.tilt, PI)
InUnit(a) == Le(Zero, a) /\ Le(a, One)
\* the least whole number not below a
Ceil(a) == (a.n + a.d - 1) \div a.d
\* the passes of a loop over rows whose limit is finite
PassesOf(limit) == IF Ceil(limit) > 0 THEN Ceil(limit) ELSE 0

\* C17: for every valid geometry, the near-flat branch with height > 0
\* included, every value of the profile that ground_sky_diffuse_view_factor
\* returns and the integrated vf_ground_sky lie in [0, 1].
C17_ViewFactorsInUnit ==
    call.fn = "vf_ground_sky" /\ ValidGeometry(call.in) =>
        /\ call.pc = "profile" =>
               \A j \in 1..Len(call.fz_sky_row) : InUnit(call.fz_sky_row[j])
        /\ call.pc = "return" =>
               /\ InUnit(call.out[1])
               /\ \A j \in 1..Len(call.out[2]) : InUnit(call.out[2][j])

\* C18: both loops over rows terminate for every input, whatever the limits
\* are: every pass of a loop brings its test (limit - row) > 0 nearer to
\* failing.
C18_LoopsTerminate ==
    [][/\ call.pc = "rows_ahead" /\ call'.pc = "rows_ahead" =>
             Lt(Sub(call'.fz0_limit, call'.prev_row),
                Sub(call.fz0_limit, call.prev_row))
       /\ call.pc = "rows_behind" /\ call'.pc = "rows_behind" =>
             Lt(Sub(call'.fz1_limit, call'.next_row),
                Sub(call.fz1_limit, call.next_row))]_vars

\* C19: for every valid geometry, in the near-flat branch and in the general
\* one, neither loop makes more than ceil(MAXROWS * height / pitch) passes.
C19_PassesCapped ==
    /\ call.fn = "vf_ground_sky" /\ ValidGeometry(call.in)
    /\ call.pc \in {"rows_ahead", "rows_behind", "profile"}
    => /\ Len(call.fz0_sky_next)
              <= Ceil(Div(Mul(Num(MAXROWS), call.in.height), call.in.pitch))
       /\ call.pc # "rows_ahead" =>
              Len(call.fz1_sky_prev)
                  <= Ceil(Div(Mul(Num(MAXROWS), call.in.height),
                              call.in.pitch))

\* C20: with finite limits the loop over the rows ahead makes exactly
\* ceil(fz0_limit) passes, none when the limit is <= 0, with the shifts 0, 1,
\* 2, ..., each pass appending the front edge profile interpolated at
\* fz + shift; the loop over the rows behind likewise with fz1_limit, the back
\* edge profile and fz - shift; the result is the current row's view factor
\* plus the elementwise sum of all the appended profiles.
C20_PassesAndShifts ==
    /\ call.fn = "vf_ground_sky" /\ call.pc = "profile"
    /\ IsFin(call.fz0_limit) /\ IsFin(call.fz1_limit)
    => /\ Len(call.fz0_sky_next) = PassesOf(call.fz0_limit)
       /\ Len(call.fz1_sky_prev) = PassesOf(call.fz1_limit)
       /\ \A k \in 1..Len(call.fz0_sky_next), i \in 1..Len(call.fz) :
              call.fz0_sky_next[k][i]
                  = NpInterp(Add(call.fz[i], Num(k - 1)), call.fz,
                             call.fz_sky_next)
       /\ \A k \in 1..Len(call.fz1_sky_prev), i \in 1..Len(call.fz) :
              call.fz1_sky_prev[k][i]
                  = NpInterp(Sub(call.fz[i], Num(k - 1)), call.fz,
                             call.fz_sky_prev)
       /\ \A i \in 1..Len(call.fz) :
              call.fz_sky[i]
                  = Add(Add(fz_sky_current(call.fz, call.in.gcr,
                                call.in.height, call.in.tilt,
                                call.in.pitch)[i],
                            NpSum_at(call.fz0_sky_next, i)),
                        NpSum_at(call.fz1_sky_prev, i))

\* loops that have made two passes each, of a limit that is not a whole
\* number, and a loop that has made none
C20_Witness ==
    /\ call.fn = "vf_ground_sky" /\ call.pc = "profile"
    /\ IsFin(call.fz0_limit) /\ call.fz0_limit.d # 1
    /\ Len(call.fz0_sky_next) = 2 /\ Len(call.fz1_sky_prev) = 2
    /\ call.fz0_sky_next[1] # call.fz0_sky_next[2]

====
